---- MODULE Spec2Model ----
(***************************************************************************)
(* Model of src/homework.py: the fitness-tracker calculators (Training,    *)
(* Running, SportsWalking, Swimming), the InfoMessage report, the          *)
(* read_package factory, main and the __main__ entry flow.                 *)
(*                                                                         *)
(* Numbers.  Python computes the formulas in binary floating point.  The   *)
(* model computes them in exact rational arithmetic: a number is a         *)
(* fraction n/d whose numerator and denominator are arbitrary-precision    *)
(* naturals (sequences of base-10000 limbs, least significant first),      *)
(* because the intermediate values of the formulas exceed 32-bit           *)
(* integers.  A float literal such as 0.65 is the decimal fraction it is   *)
(* written as.  All readings are naturals, so every value is               *)
(* non-negative.  The format spec :.3f rounds the exact value to three     *)
(* decimals, a tie going to the even digit; Python rounds the binary       *)
(* double, so the two can differ in the last digit where the exact value   *)
(* is a tie (24.6915), which no reading of Actions, Durations, Weights,    *)
(* Fourths, Fifths or PACKAGES produces.                                   *)
(*                                                                         *)
(* Exceptions.  A raised Python exception is a value with ok = FALSE       *)
(* carrying the exception's class name; arithmetic propagates the first    *)
(* exception in Python's left-to-right evaluation order.                   *)
(*                                                                         *)
(* Two specifications: Spec (FairSpec with progress) is the __main__       *)
(* block run over a list of packages, PACKAGES being the list written in   *)
(* the source; SpecCalls is read_package on any code and reading list      *)
(* followed by the calculator's methods and main called in any order.      *)
(***************************************************************************)
EXTENDS Integers, Sequences, FiniteSets, TLC

\* ------------------------------------------------------------------------
\* Strict evaluation: the arguments are evaluated once, before the body
\* ------------------------------------------------------------------------

The(S) == CHOOSE v \in S : TRUE

Strict1(x, F(_)) == The({F(a) : a \in {x}})

Strict2(x, y, F(_, _)) == The({F(a, b) : a \in {x}, b \in {y}})

Strict3(x, y, z, F(_, _, _)) ==
    The({F(a, b, c) : a \in {x}, b \in {y}, c \in {z}})

Strict4(x, y, z, w, F(_, _, _, _)) ==
    The({F(a, b, c, e) : a \in {x}, b \in {y}, c \in {z}, e \in {w}})

\* ------------------------------------------------------------------------
\* Arbitrary-precision naturals
\* ------------------------------------------------------------------------

Base == 10000

RECURSIVE BNorm(_)
BNorm(x) ==
    Strict1(x, LAMBDA a :
        IF a = <<>> THEN <<>>
        ELSE IF a[Len(a)] = 0 THEN BNorm(SubSeq(a, 1, Len(a) - 1))
        ELSE a)

RECURSIVE BFromInt(_)
BFromInt(x) ==
    Strict1(x, LAMBDA i :
        IF i = 0 THEN <<>> ELSE <<i % Base>> \o BFromInt(i \div Base))

Limb(a, i) == IF i <= Len(a) THEN a[i] ELSE 0

\* the limbs from i on of a + b + c, for a carry c
RECURSIVE BAddC(_, _, _, _)
BAddC(x, y, j, k) ==
    Strict4(x, y, j, k, LAMBDA a, b, i, c :
        IF i > Len(a) /\ i > Len(b)
        THEN (IF c = 0 THEN <<>> ELSE <<c>>)
        ELSE Strict1(Limb(a, i) + Limb(b, i) + c, LAMBDA s :
                 <<s % Base>> \o BAddC(a, b, i + 1, s \div Base)))

BAdd(a, b) == BAddC(a, b, 1, 0)

\* the limbs from i on of a - b - c, for a borrow c
RECURSIVE BSubC(_, _, _, _)
BSubC(x, y, j, k) ==
    Strict4(x, y, j, k, LAMBDA a, b, i, c :
        IF i > Len(a) THEN <<>>
        ELSE Strict1(a[i] - Limb(b, i) - c, LAMBDA s :
                 IF s < 0 THEN <<s + Base>> \o BSubC(a, b, i + 1, 1)
                 ELSE <<s>> \o BSubC(a, b, i + 1, 0)))

\* a - b for a >= b
BSub(a, b) == BNorm(BSubC(a, b, 1, 0))

\* the limbs from i on of a * m + c, for a limb-sized m and a carry c
RECURSIVE BMulSmallC(_, _, _, _)
BMulSmallC(x, y, j, k) ==
    Strict4(x, y, j, k, LAMBDA a, m, i, c :
        IF i > Len(a) THEN BFromInt(c)
        ELSE Strict1(a[i] * m + c, LAMBDA p :
                 <<p % Base>> \o BMulSmallC(a, m, i + 1, p \div Base)))

BMulSmall(a, m) ==
    Strict2(a, m, LAMBDA b, k :
        IF k = 0 \/ b = <<>> THEN <<>> ELSE BMulSmallC(b, k, 1, 0))

BShift(x) == Strict1(x, LAMBDA a : IF a = <<>> THEN <<>> ELSE <<0>> \o a)

\* a times the limbs from i on of b
RECURSIVE BMulFrom(_, _, _)
BMulFrom(x, y, j) ==
    Strict3(x, y, j, LAMBDA a, b, i :
        IF i > Len(b) THEN <<>>
        ELSE BAdd(BMulSmall(a, b[i]), BShift(BMulFrom(a, b, i + 1))))

BMul(a, b) == BMulFrom(a, b, 1)

RECURSIVE BCmpAt(_, _, _)
BCmpAt(x, y, j) ==
    Strict3(x, y, j, LAMBDA a, b, i :
        IF i = 0 THEN 0
        ELSE IF a[i] > b[i] THEN 1
        ELSE IF a[i] < b[i] THEN -1
        ELSE BCmpAt(a, b, i - 1))

\* -1, 0, 1 as a < b, a = b, a > b
BCmp(x, y) ==
    Strict2(x, y, LAMBDA a, b :
        IF Len(a) > Len(b) THEN 1
        ELSE IF Len(a) < Len(b) THEN -1
        ELSE BCmpAt(a, b, Len(a)))

\* the largest digit dg <= q with b * dg <= cur
RECURSIVE QFix(_, _, _)
QFix(x, y, j) ==
    Strict3(x, y, j, LAMBDA cur, b, q :
        IF BCmp(BMulSmall(b, q), cur) <= 0 THEN q ELSE QFix(cur, b, q - 1))

\* the digit cur \div b, for b whose top limb is at least Base \div 2 and
\* cur < b * Base: the estimate from the top limbs is at most 2 too large
QDigit(x, y) ==
    Strict2(x, y, LAMBDA cur, b :
        IF BCmp(cur, b) < 0 THEN 0
        ELSE Strict1((Limb(cur, Len(b) + 1) * Base + Limb(cur, Len(b)))
                        \div b[Len(b)],
                     LAMBDA q : QFix(cur, b, IF q < Base THEN q ELSE Base - 1)))

\* long division of the limbs from i on of a by such a b: quotient q, rest r
RECURSIVE BDivFrom(_, _, _)
BDivFrom(x, y, j) ==
    Strict3(x, y, j, LAMBDA a, b, i :
        IF i > Len(a) THEN [q |-> <<>>, r |-> <<>>]
        ELSE Strict1(BDivFrom(a, b, i + 1), LAMBDA hi :
             Strict1(BNorm(<<a[i]>> \o hi.r), LAMBDA cur :
             Strict1(QDigit(cur, b), LAMBDA dg :
                 [q |-> BNorm(<<dg>> \o hi.q),
                  r |-> BSub(cur, BMulSmall(b, dg))]))))

\* division of the limbs from i on of a by a limb-sized m > 0
RECURSIVE BDivSmallFrom(_, _, _)
BDivSmallFrom(x, y, j) ==
    Strict3(x, y, j, LAMBDA a, m, i :
        IF i > Len(a) THEN [q |-> <<>>, r |-> 0]
        ELSE Strict1(BDivSmallFrom(a, m, i + 1), LAMBDA hi :
             Strict1(hi.r * Base + a[i], LAMBDA cur :
                 [q |-> BNorm(<<cur \div m>> \o hi.q), r |-> cur % m])))

\* quotient q and rest r of a by b # 0: both are scaled by f to bring the
\* top limb of b to Base \div 2 or more, which leaves the quotient as it is
BDivMod(x, y) ==
    Strict2(x, y, LAMBDA a, b :
        Strict1(Base \div (b[Len(b)] + 1), LAMBDA f :
            Strict1(BDivFrom(BMulSmall(a, f), BMulSmall(b, f), 1), LAMBDA qr :
                [q |-> qr.q, r |-> BDivSmallFrom(qr.r, f, 1).q])))

\* ------------------------------------------------------------------------
\* Numbers: exact fractions n/d, or a raised exception.  Fractions are not
\* reduced: two of them are the same number when NumEq says so
\* ------------------------------------------------------------------------

Raise(e) == [ok |-> FALSE, n |-> <<>>, d |-> <<>>, err |-> e]

IsErr(x) == ~x.ok

\* the fraction n/d for d # 0
Frac(n, d) == [ok |-> TRUE, n |-> n, d |-> d, err |-> "none"]

\* the number i/den for naturals i and den > 0: Num(65, 100) is 0.65
Num(i, den) == Frac(BFromInt(i), BFromInt(den))

Nat2Num(i) == Num(i, 1)

\* Python's ==: both are numbers, and the same number
NumEq(x, y) ==
    Strict2(x, y, LAMBDA a, b :
        a.ok /\ b.ok /\ BMul(a.n, b.d) = BMul(b.n, a.d))

\* Python's <= on two numbers
NumLe(x, y) ==
    Strict2(x, y, LAMBDA a, b :
        a.ok /\ b.ok /\ BCmp(BMul(a.n, b.d), BMul(b.n, a.d)) <= 0)

Add(x, y) ==
    Strict2(x, y, LAMBDA a, b :
        IF IsErr(a) THEN a
        ELSE IF IsErr(b) THEN b
        ELSE Frac(BAdd(BMul(a.n, b.d), BMul(b.n, a.d)), BMul(a.d, b.d)))

Mul(x, y) ==
    Strict2(x, y, LAMBDA a, b :
        IF IsErr(a) THEN a
        ELSE IF IsErr(b) THEN b
        ELSE Frac(BMul(a.n, b.n), BMul(a.d, b.d)))

\* Mutant of Div: a zero divisor is guarded and gives 0
Div_Guarded(x, y) ==
    Strict2(x, y, LAMBDA a, b :
        IF IsErr(a) THEN a
        ELSE IF IsErr(b) THEN b
        ELSE IF b.n = <<>> THEN Frac(<<>>, <<1>>)
        ELSE Frac(BMul(a.n, b.d), BMul(a.d, b.n)))

\* Python's true division: a zero divisor raises ZeroDivisionError
Div(x, y) ==
    Strict2(x, y, LAMBDA a, b :
        IF IsErr(a) THEN a
        ELSE IF IsErr(b) THEN b
        ELSE IF b.n = <<>> THEN Raise("ZeroDivisionError")
        ELSE Frac(BMul(a.n, b.d), BMul(a.d, b.n)))

\* x ** 2
Sqr(x) == Strict1(x, LAMBDA a : Mul(a, a))

\* ------------------------------------------------------------------------
\* InfoMessage
\* ------------------------------------------------------------------------

\* the decimal digits of natural i, zero-padded on the left to width w
RECURSIVE Pad(_, _)
Pad(x, y) ==
    Strict2(x, y, LAMBDA i, w :
        IF w <= 1 THEN ToString(i)
        ELSE Pad(i \div 10, w - 1) \o ToString(i % 10))

RECURSIVE BigToStr(_)
BigToStr(x) ==
    Strict1(x, LAMBDA a :
        IF a = <<>> THEN "0"
        ELSE IF Len(a) = 1 THEN ToString(a[1])
        ELSE BigToStr(SubSeq(a, 2, Len(a))) \o Pad(a[1], 4))

\* the natural nearest to n/d, a tie going to the even one
RoundHalfEven(n, d) ==
    Strict2(BDivMod(n, d), d, LAMBDA qr, b :
        Strict1(BCmp(BMulSmall(qr.r, 2), b), LAMBDA c :
            IF c > 0 \/ (c = 0 /\ Limb(qr.q, 1) % 2 = 1)
            THEN BAdd(qr.q, <<1>>)
            ELSE qr.q))

\* the format spec ':.3f' applied to a number: fixed point, three decimals
Format3f(x) ==
    Strict1(BDivMod(RoundHalfEven(BMulSmall(x.n, 1000), x.d), <<1000>>),
            LAMBDA ip : BigToStr(ip.q) \o "." \o Pad(Limb(ip.r, 1), 3))

\* the dataclass InfoMessage(training_type, duration, distance, speed, calories)
InfoMessage(training_type, duration, distance, speed, calories) ==
    [training_type |-> training_type, duration |-> duration,
     distance |-> distance, speed |-> speed, calories |-> calories]

NoInfo == [training_type |-> "None"]

\* MESSAGE.format(**asdict(self)); the Russian labels of MESSAGE are
\* transliterated, since a module's strings are ASCII.  duration is the
\* natural the calculator was given, the other three fields are numbers
get_message(info) ==
    Strict1(info, LAMBDA self :
        "Tip trenirovki: " \o self.training_type
        \o "; Dlitelnost: " \o Format3f(Nat2Num(self.duration))
        \o " ch.; Distantsiya: " \o Format3f(self.distance)
        \o " km; Sr. skorost: " \o Format3f(self.speed)
        \o " km/ch; Potracheno kkal: " \o Format3f(self.calories) \o ".")

\* ------------------------------------------------------------------------
\* Training and its subclasses
\* ------------------------------------------------------------------------

M_IN_KM == 1000
MIN_IN_H == 60
CM_IN_M == 100
KMH_IN_MSEC == Num(278, 1000)
COEF_1 == 18
COEF_2 == Num(179, 100)
CALORIES_WEIGHT_MULTIPLIER == Num(35, 1000)
CALORIES_SPEED_HEIGHT_MULTIPLIER == Num(29, 1000)
CALORIES_COTF_5 == Num(11, 10)
CALORIES_COTF_6 == 2

\* Mutant of LEN_STEP: Swimming does not override the step length
LEN_STEP_Base(self) == Num(65, 100)

\* the class attribute LEN_STEP as looked up on self: Swimming overrides it
LEN_STEP(self) ==
    IF self.cls = "Swimming" THEN Num(138, 100) ELSE Num(65, 100)

NoTraining == [cls |-> "None"]

\* a constructor call that raised e
Failed(e) == [ok |-> FALSE, err |-> e, obj |-> NoTraining]

Built(obj) == [ok |-> TRUE, err |-> "none", obj |-> obj]

\* Mutant of Training__init__: surplus positional arguments are ignored
Training__init__Lenient(cls, args) ==
    IF Len(args) < 3 THEN Failed("TypeError")
    ELSE Built([cls |-> cls, action |-> args[1], duration |-> args[2],
                weight |-> args[3]])

\* Training.__init__(self, action, duration, weight), reached by cls(*args):
\* any other number of positional arguments raises TypeError
Training__init__(cls, args) ==
    IF Len(args) # 3 THEN Failed("TypeError")
    ELSE Built([cls |-> cls, action |-> args[1], duration |-> args[2],
                weight |-> args[3]])

Running(args) == Training__init__("Running", args)

SportsWalking(args) ==
    IF Len(args) # 4 THEN Failed("TypeError")
    ELSE Built([cls |-> "SportsWalking", action |-> args[1],
                duration |-> args[2], weight |-> args[3], height |-> args[4]])

\* Mutant of Swimming: length_pool and count_pool are assigned crosswise
Swimming_SwapPool(args) ==
    IF Len(args) # 5 THEN Failed("TypeError")
    ELSE Built([cls |-> "Swimming", action |-> args[1], duration |-> args[2],
                weight |-> args[3], length_pool |-> args[5],
                count_pool |-> args[4]])

Swimming(args) ==
    IF Len(args) # 5 THEN Failed("TypeError")
    ELSE Built([cls |-> "Swimming", action |-> args[1], duration |-> args[2],
                weight |-> args[3], length_pool |-> args[4],
                count_pool |-> args[5]])

get_distance(self) ==
    Div(Mul(Nat2Num(self.action), LEN_STEP(self)), Nat2Num(M_IN_KM))

Training_get_mean_speed(self) ==
    Div(get_distance(self), Nat2Num(self.duration))

Swimming_get_mean_speed(self) ==
    Div(Div(Mul(Nat2Num(self.length_pool), Nat2Num(self.count_pool)),
            Nat2Num(M_IN_KM)),
        Nat2Num(self.duration))

\* Mutant of get_mean_speed: Swimming falls back to the base formula
get_mean_speed_NoOverride(self) == Training_get_mean_speed(self)

\* method resolution: Swimming overrides get_mean_speed
get_mean_speed(self) ==
    IF self.cls = "Swimming" THEN Swimming_get_mean_speed(self)
    ELSE Training_get_mean_speed(self)

\* Mutant of Running_get_spent_calories: the duration is left in hours
Running_get_spent_calories_Hours(self) ==
    Mul(Div(Mul(Add(Mul(Nat2Num(COEF_1), get_mean_speed(self)), COEF_2),
                Nat2Num(self.weight)),
            Nat2Num(M_IN_KM)),
        Nat2Num(self.duration))

Running_get_spent_calories(self) ==
    Mul(Div(Mul(Add(Mul(Nat2Num(COEF_1), get_mean_speed(self)), COEF_2),
                Nat2Num(self.weight)),
            Nat2Num(M_IN_KM)),
        Mul(Nat2Num(self.duration), Nat2Num(MIN_IN_H)))

SportsWalking_get_spent_calories(self) ==
    Mul(Add(Mul(CALORIES_WEIGHT_MULTIPLIER, Nat2Num(self.weight)),
            Mul(Mul(Div(Sqr(Mul(get_mean_speed(self), KMH_IN_MSEC)),
                        Div(Nat2Num(self.height), Nat2Num(CM_IN_M))),
                    CALORIES_SPEED_HEIGHT_MULTIPLIER),
                Nat2Num(self.weight))),
        Mul(Nat2Num(self.duration), Nat2Num(MIN_IN_H)))

Swimming_get_spent_calories(self) ==
    Mul(Mul(Mul(Add(get_mean_speed(self), CALORIES_COTF_5),
                Nat2Num(CALORIES_COTF_6)),
            Nat2Num(self.weight)),
        Nat2Num(self.duration))

\* method resolution: each subclass overrides the base method, which raises
get_spent_calories(self) ==
    CASE self.cls = "Running" -> Running_get_spent_calories(self)
      [] self.cls = "SportsWalking" -> SportsWalking_get_spent_calories(self)
      [] self.cls = "Swimming" -> Swimming_get_spent_calories(self)
      [] OTHER -> Raise("NotImplementedError")

\* InfoMessage(type(self).__name__, self.duration, self.get_distance(),
\* self.get_mean_speed(), self.get_spent_calories()): the arguments are
\* evaluated in order and the first exception propagates
show_training_info(self) ==
    Strict3(get_distance(self), get_mean_speed(self), get_spent_calories(self),
            LAMBDA distance, speed, calories :
        IF IsErr(distance) THEN [ok |-> FALSE, err |-> distance.err, info |-> NoInfo]
        ELSE IF IsErr(speed) THEN [ok |-> FALSE, err |-> speed.err, info |-> NoInfo]
        ELSE IF IsErr(calories) THEN [ok |-> FALSE, err |-> calories.err, info |-> NoInfo]
        ELSE [ok |-> TRUE, err |-> "none",
              info |-> InfoMessage(self.cls, self.duration, distance, speed,
                                   calories)])

\* ------------------------------------------------------------------------
\* read_package and main
\* ------------------------------------------------------------------------

data_of_training ==
    [SWM |-> "Swimming", RUN |-> "Running", WLK |-> "SportsWalking"]

\* cls(*args) for the class named cls
Construct(cls, args) ==
    CASE cls = "Swimming" -> Swimming(args)
      [] cls = "Running" -> Running(args)
      [] cls = "SportsWalking" -> SportsWalking(args)

\* Mutant of read_package: an unknown code falls back to Running
read_package_Default(workout_type, data) ==
    IF workout_type \notin DOMAIN data_of_training THEN Running(data)
    ELSE Construct(data_of_training[workout_type], data)

read_package(workout_type, data) ==
    IF workout_type \notin DOMAIN data_of_training THEN Failed("KeyError")
    ELSE Construct(data_of_training[workout_type], data)

\* main(training): what print() writes, or the exception that propagates
main(training) ==
    Strict1(show_training_info(training), LAMBDA r :
        IF r.ok THEN [ok |-> TRUE, err |-> "none", line |-> get_message(r.info)]
        ELSE [ok |-> FALSE, err |-> r.err, line |-> ""])

\* ------------------------------------------------------------------------
\* State
\* ------------------------------------------------------------------------

VARIABLES
    packages,      \* the list of (workout_type, data) tuples of the entry flow
    idx,           \* 1-based position of the for loop in packages
    pc,            \* control position
    workout_type,  \* the code passed to read_package
    data,          \* the reading list passed to read_package
    training,      \* the calculator read_package returned, or NoTraining
    stdout,        \* the lines print() has written, in order
    err,           \* class name of the exception that propagated, or "none"
    info,          \* the InfoMessage the last show_training_info() returned
    last,          \* the last method call on the calculator and what it gave
    msgs           \* the strings get_message() has returned, in order

vars == <<packages, idx, pc, workout_type, data, training, stdout, err,
          info, last, msgs>>

\* ------------------------------------------------------------------------
\* Bounds and inputs
\* ------------------------------------------------------------------------

MaxPackages == 3
MaxDuration == 2
MaxLines == 2
MaxMsgs == 2

\* the list of the __main__ block
PACKAGES ==
    << <<"SWM", <<720, 1, 80, 25, 40>> >>,
       <<"RUN", <<15000, 1, 75>> >>,
       <<"WLK", <<9000, 1, 75, 180>> >> >>

\* tuples a package list is drawn from: those of PACKAGES, an unknown code,
\* a zero duration and a reading list one short
SamplePackages ==
    {PACKAGES[i] : i \in 1..3}
    \cup { <<"XYZ", <<720, 1, 80>> >>,
           <<"RUN", <<15000, 0, 75>> >>,
           <<"WLK", <<9000, 1, 75>> >> }

PackageLists ==
    UNION {[1..k -> SamplePackages] : k \in 1..MaxPackages}

WorkoutTypes == {"SWM", "RUN", "WLK", "XYZ"}

Actions == {720, 15000}
Durations == 0..MaxDuration
Weights == {75, 80}
Fourths == {0, 25, 180}
Fifths == {40}

\* reading lists of two to six readings
DataLists ==
    {<<a, d>> : a \in Actions, d \in Durations}
    \cup {<<a, d, w>> : a \in Actions, d \in Durations, w \in Weights}
    \cup {<<a, d, w, h>> :
            a \in Actions, d \in Durations, w \in Weights, h \in Fourths}
    \cup {<<a, d, w, h, c>> :
            a \in Actions, d \in Durations, w \in Weights, h \in Fourths,
            c \in Fifths}
    \cup {<<a, d, w, h, c, 1>> :
            a \in Actions, d \in Durations, w \in Weights, h \in {25},
            c \in Fifths}

NoCall == [op |-> "none", ok |-> TRUE, err |-> "none"]

\* ------------------------------------------------------------------------
\* The entry flow (the __main__ block)
\* ------------------------------------------------------------------------

Init ==
    /\ packages \in PackageLists
    /\ idx = 1
    /\ pc = "loop"
    /\ workout_type = ""
    /\ data = <<>>
    /\ training = NoTraining
    /\ stdout = <<>>
    /\ err = "none"
    /\ info = NoInfo
    /\ last = NoCall
    /\ msgs = <<>>

\* for workout_type, data in packages: training = read_package(...); when
\* read_package raises, the assignment does not happen and the run ends
Loop_read_package ==
    /\ pc = "loop"
    /\ idx <= Len(packages)
    /\ \E r \in {read_package(packages[idx][1], packages[idx][2])} :
           /\ workout_type' = packages[idx][1]
           /\ data' = packages[idx][2]
           /\ training' = IF r.ok THEN r.obj ELSE training
           /\ err' = r.err
           /\ pc' = IF r.ok THEN "built" ELSE "aborted"
    /\ UNCHANGED <<packages, idx, stdout, info, last, msgs>>

\* Mutant of Loop_main: the line is written before the earlier ones
Loop_main_Prepend ==
    /\ pc = "built"
    /\ \E r \in {main(training)} :
           /\ stdout' = IF r.ok THEN <<r.line>> \o stdout ELSE stdout
           /\ err' = r.err
           /\ pc' = IF r.ok THEN "loop" ELSE "aborted"
           /\ idx' = IF r.ok THEN idx + 1 ELSE idx
    /\ UNCHANGED <<packages, workout_type, data, training, info, last, msgs>>

\* main(training), then on to the next tuple
Loop_main ==
    /\ pc = "built"
    /\ \E r \in {main(training)} :
           /\ stdout' = IF r.ok THEN Append(stdout, r.line) ELSE stdout
           /\ err' = r.err
           /\ pc' = IF r.ok THEN "loop" ELSE "aborted"
           /\ idx' = IF r.ok THEN idx + 1 ELSE idx
    /\ UNCHANGED <<packages, workout_type, data, training, info, last, msgs>>

\* the list is exhausted: the program ends
Loop_exit ==
    /\ pc = "loop"
    /\ idx > Len(packages)
    /\ pc' = "done"
    /\ UNCHANGED <<packages, idx, workout_type, data, training, stdout, err,
                   info, last, msgs>>

Next == Loop_read_package \/ Loop_main \/ Loop_exit

Spec == Init /\ [][Next]_vars

FairSpec == Spec /\ WF_vars(Next)

\* ------------------------------------------------------------------------
\* The calculators' interface: read_package on any code and reading list,
\* then the methods of the calculator and main, called in any order
\* ------------------------------------------------------------------------

InitCalls ==
    /\ packages = <<>>
    /\ idx = 1
    /\ pc = "start"
    /\ workout_type \in WorkoutTypes
    /\ data \in DataLists
    /\ training = NoTraining
    /\ stdout = <<>>
    /\ err = "none"
    /\ info = NoInfo
    /\ last = NoCall
    /\ msgs = <<>>

Call_read_package ==
    /\ pc = "start"
    /\ \E r \in {read_package(workout_type, data)} :
           /\ training' = r.obj
           /\ err' = r.err
           /\ pc' = IF r.ok THEN "ready" ELSE "failed"
    /\ UNCHANGED <<packages, idx, workout_type, data, stdout, info, last, msgs>>

\* a method returning a number
CallNumber(op, x) ==
    /\ pc = "ready"
    /\ \E r \in {x} :
           last' = [op |-> op, ok |-> r.ok, err |-> r.err, n |-> r.n, d |-> r.d]
    /\ UNCHANGED <<packages, idx, pc, workout_type, data, training, stdout,
                   err, info, msgs>>

\* Mutant of Call_get_distance: the call counts itself in self.action
Call_get_distance_Counting ==
    /\ pc = "ready"
    /\ \E r \in {get_distance(training)} :
           last' = [op |-> "get_distance", ok |-> r.ok, err |-> r.err,
                    n |-> r.n, d |-> r.d]
    /\ training' = [training EXCEPT !.action = training.action + 1]
    /\ UNCHANGED <<packages, idx, pc, workout_type, data, stdout, err, info,
                   msgs>>

Call_get_distance == CallNumber("get_distance", get_distance(training))

Call_get_mean_speed == CallNumber("get_mean_speed", get_mean_speed(training))

Call_get_spent_calories ==
    CallNumber("get_spent_calories", get_spent_calories(training))

\* Mutant of Call_show_training_info: the call adds a step to self.action
Call_show_training_info_Stepping ==
    /\ pc = "ready"
    /\ \E r \in {show_training_info(training)} :
           /\ last' = [op |-> "show_training_info", ok |-> r.ok, err |-> r.err]
           /\ info' = IF r.ok THEN r.info ELSE info
    /\ training' = [training EXCEPT !.action = training.action + 1]
    /\ UNCHANGED <<packages, idx, pc, workout_type, data, stdout, err, msgs>>

Call_show_training_info ==
    /\ pc = "ready"
    /\ \E r \in {show_training_info(training)} :
           /\ last' = [op |-> "show_training_info", ok |-> r.ok, err |-> r.err]
           /\ info' = IF r.ok THEN r.info ELSE info
    /\ UNCHANGED <<packages, idx, pc, workout_type, data, training, stdout,
                   err, msgs>>

\* get_message() on the InfoMessage show_training_info() returned
Call_get_message ==
    /\ pc = "ready"
    /\ info # NoInfo
    /\ Len(msgs) < MaxMsgs
    /\ \E m \in {get_message(info)} :
           /\ last' = [op |-> "get_message", ok |-> TRUE, err |-> "none", str |-> m]
           /\ msgs' = Append(msgs, m)
    /\ UNCHANGED <<packages, idx, pc, workout_type, data, training, stdout,
                   err, info>>

Call_main ==
    /\ pc = "ready"
    /\ Len(stdout) < MaxLines
    /\ \E r \in {main(training)} :
           /\ last' = [op |-> "main", ok |-> r.ok, err |-> r.err]
           /\ stdout' = IF r.ok THEN Append(stdout, r.line) ELSE stdout
    /\ UNCHANGED <<packages, idx, pc, workout_type, data, training, err,
                   info, msgs>>

NextCalls ==
    \/ Call_read_package
    \/ Call_get_distance
    \/ Call_get_mean_speed
    \/ Call_get_spent_calories
    \/ Call_show_training_info
    \/ Call_get_message
    \/ Call_main

SpecCalls == InitCalls /\ [][NextCalls]_vars

\* ------------------------------------------------------------------------
\* Properties
\* ------------------------------------------------------------------------

KnownCodes == {"SWM", "RUN", "WLK"}

ClassOf(code) ==
    CASE code = "SWM" -> "Swimming"
      [] code = "RUN" -> "Running"
      [] code = "WLK" -> "SportsWalking"

Arity(code) ==
    CASE code = "SWM" -> 5
      [] code = "RUN" -> 3
      [] code = "WLK" -> 4

\* the step length of a class, in km per action
StepOf(cls) == IF cls = "Swimming" THEN Num(138, 100) ELSE Num(65, 100)

\* two call results agree: the same number, or the same exception
SameResult(x, y) ==
    Strict2(x, y, LAMBDA a, b :
        IF a.ok /\ b.ok THEN NumEq(a, b)
        ELSE a.ok = b.ok /\ a.err = b.err)

\* C1: for a known code and a reading list of the matching arity,
\* read_package builds the class the code maps to and assigns the readings
\* in order: 1 action, 2 duration, 3 weight, then 4 height for WLK, and
\* 4 length_pool, 5 count_pool for SWM; a report built from the calculator
\* carries the class name as its training type.
C1_PositionalConstruction ==
    /\ (pc # "start" /\ workout_type \in KnownCodes
            /\ Len(data) = Arity(workout_type))
       => pc = "ready"
    /\ pc = "ready" =>
        /\ training.cls = ClassOf(workout_type)
        /\ training.action = data[1]
        /\ training.duration = data[2]
        /\ training.weight = data[3]
        /\ workout_type = "RUN" =>
               DOMAIN training = {"cls", "action", "duration", "weight"}
        /\ workout_type = "WLK" => training.height = data[4]
        /\ workout_type = "SWM" =>
               training.length_pool = data[4] /\ training.count_pool = data[5]
        /\ info # NoInfo => info.training_type = ClassOf(workout_type)

C1_Witness ==
    /\ pc = "ready"
    /\ workout_type = "SWM"
    /\ data = <<720, 1, 80, 25, 40>>
    /\ info # NoInfo

\* the calculator the loop held before it reached tuple idx
PrevTraining ==
    IF idx = 1 THEN NoTraining
    ELSE read_package(packages[idx - 1][1], packages[idx - 1][2]).obj

\* C2: a code outside SWM, RUN, WLK makes read_package raise the
\* invalid-code error (KeyError in the code) whatever the reading list is;
\* no calculator is built, nothing catches the error, the run ends there
\* and no line is written for that tuple.
C2_InvalidCodeAborts ==
    (pc \in {"built", "aborted"} /\ packages[idx][1] \notin KnownCodes)
    => /\ pc = "aborted"
       /\ err = "KeyError"
       /\ training = PrevTraining
       /\ Len(stdout) = idx - 1
       /\ ~ENABLED Next
       /\ \A d \in DataLists :
              read_package(packages[idx][1], d) = Failed("KeyError")

C2_Witness ==
    /\ pc = "aborted"
    /\ idx = 2
    /\ packages[idx][1] = "XYZ"
    /\ Len(stdout) = 1

IsRunningSample ==
    /\ pc = "ready"
    /\ training = [cls |-> "Running", action |-> 15000, duration |-> 1,
                   weight |-> 75]

\* C3 as stated: for Running with action 15000, duration 1, weight 75 the
\* calories are approximately 841.08 (here: within 0.01 of it).
C3_Original ==
    (IsRunningSample /\ last.op = "get_spent_calories")
    => /\ NumLe(Num(84107, 100), last)
       /\ NumLe(last, Num(84109, 100))

\* C3 amended: for that calculator get_distance() is 9.75, get_mean_speed()
\* is 9.75 and get_spent_calories() is 797.805; and for every Running
\* calculator the calories are
\* (18 x mean_speed + 1.79) x weight / 1000 x (duration x 60).
C3_RunningSample ==
    /\ (IsRunningSample /\ last.op = "get_distance")
       => NumEq(last, Num(975, 100))
    /\ (IsRunningSample /\ last.op = "get_mean_speed")
       => NumEq(last, Num(975, 100))
    /\ (IsRunningSample /\ last.op = "get_spent_calories")
       => NumEq(last, Num(797805, 1000))
    /\ (pc = "ready" /\ training.cls = "Running"
            /\ last.op = "get_spent_calories" /\ training.duration > 0)
       => NumEq(Mul(last, Nat2Num(1000)),
                Mul(Mul(Add(Mul(Nat2Num(18),
                                Div(get_distance(training),
                                    Nat2Num(training.duration))),
                            Num(179, 100)),
                        Nat2Num(training.weight)),
                    Nat2Num(training.duration * 60)))

C3_Witness == IsRunningSample /\ last.op = "get_spent_calories" /\ last.ok

\* what the pool geometry gives as the mean speed of a Swimming calculator
PoolSpeed(t) ==
    Div(Div(Nat2Num(t.length_pool * t.count_pool), Nat2Num(1000)),
        Nat2Num(t.duration))

IsSwimmingSample ==
    /\ pc = "ready"
    /\ training = [cls |-> "Swimming", action |-> 720, duration |-> 1,
                   weight |-> 80, length_pool |-> 25, count_pool |-> 40]

\* C4: the mean speed of a Swimming calculator is
\* length_pool x count_pool / 1000 / duration and its calories are
\* (mean_speed + 1.1) x 2 x weight x duration; neither depends on action:
\* a calculator that differs only in action returns the same; for
\* action 720, duration 1, weight 80, length_pool 25, count_pool 40 the
\* mean speed is 1.0 and the calories are 336.0.
C4_SwimmingIgnoresAction ==
    (pc = "ready" /\ training.cls = "Swimming") =>
        /\ last.op = "get_mean_speed" =>
            /\ SameResult(last, PoolSpeed(training))
            /\ \A a \in Actions :
                   SameResult(last,
                              get_mean_speed([training EXCEPT !.action = a]))
            /\ IsSwimmingSample => NumEq(last, Nat2Num(1))
        /\ last.op = "get_spent_calories" =>
            /\ SameResult(last,
                          Mul(Mul(Mul(Add(PoolSpeed(training), Num(11, 10)),
                                      Nat2Num(2)),
                                  Nat2Num(training.weight)),
                              Nat2Num(training.duration)))
            /\ \A a \in Actions :
                   SameResult(last,
                              get_spent_calories(
                                  [training EXCEPT !.action = a]))
            /\ IsSwimmingSample => NumEq(last, Nat2Num(336))

C4_Witness ==
    /\ IsSwimmingSample
    /\ last.op = "get_spent_calories"
    /\ last.ok
    /\ ~NumEq(get_mean_speed(training),
              Div(get_distance(training), Nat2Num(training.duration)))

\* C5: every string that get_message() returns for one calculator, over
\* any number of show_training_info() and get_message() calls, and every
\* line main() prints for it, is the same string.
C5_ReportIdempotent ==
    /\ \A i, j \in 1..Len(msgs) : msgs[i] = msgs[j]
    /\ \A i, j \in 1..Len(stdout) : stdout[i] = stdout[j]
    /\ \A i \in 1..Len(msgs) : \A j \in 1..Len(stdout) : msgs[i] = stdout[j]

C5_Witness ==
    /\ pc = "ready"
    /\ training.duration > 0
    /\ Len(msgs) >= 2
    /\ Len(stdout) >= 1
    /\ last.op = "show_training_info"

\* the calculator's fields are the readings its constructor was given
FieldsAsConstructed ==
    /\ training.action = data[1]
    /\ training.duration = data[2]
    /\ training.weight = data[3]
    /\ training.cls = "Running" => Len(data) = 3
    /\ training.cls = "SportsWalking" => training.height = data[4]
    /\ training.cls = "Swimming" =>
           training.length_pool = data[4] /\ training.count_pool = data[5]

\* C6: after any sequence of get_distance, get_mean_speed,
\* get_spent_calories, show_training_info and main calls, returning or
\* raising, the calculator's fields are the values its constructor was
\* given: no call changes it; and get_message() leaves the InfoMessage it
\* is called on as it is.
C6_CalculatorImmutable ==
    /\ [](pc = "ready" => FieldsAsConstructed)
    /\ [][/\ pc = "ready" => training' = training
          /\ msgs' # msgs => info' = info]_vars

C6_Witness ==
    /\ pc = "ready"
    /\ Len(msgs) >= 1
    /\ Len(stdout) >= 1
    /\ last.op = "get_spent_calories"
    /\ FieldsAsConstructed

\* the lines the program writes (src/homework.py run as a script), with the
\* labels transliterated as in get_message
ExpectedOutput ==
    << "Tip trenirovki: Swimming; Dlitelnost: 1.000 ch.; Distantsiya: 0.994 km; Sr. skorost: 1.000 km/ch; Potracheno kkal: 336.000.",
       "Tip trenirovki: Running; Dlitelnost: 1.000 ch.; Distantsiya: 9.750 km; Sr. skorost: 9.750 km/ch; Potracheno kkal: 797.805.",
       "Tip trenirovki: SportsWalking; Dlitelnost: 1.000 ch.; Distantsiya: 5.850 km; Sr. skorost: 5.850 km/ch; Potracheno kkal: 349.252." >>

\* the entry flow on the hardcoded list: tuple idx is read only when the
\* lines of the idx - 1 tuples before it are written, in list order
C7_InOrder ==
    packages = PACKAGES =>
        /\ pc \in {"loop", "built", "done"}
        /\ Len(stdout) = idx - 1
        /\ \A i \in 1..Len(stdout) : stdout[i] = ExpectedOutput[i]
        /\ pc = "built" =>
               /\ workout_type = PACKAGES[idx][1]
               /\ training = read_package(PACKAGES[idx][1], PACKAGES[idx][2]).obj
        /\ pc = "done" => stdout = ExpectedOutput

\* C7: the program processes SWM, RUN, WLK in list order, one line per
\* tuple, each line written before the next tuple is read, and it ends
\* with exactly the three lines on standard output.
C7_EntryFlow ==
    /\ []C7_InOrder
    /\ (packages = PACKAGES) ~> (pc = "done" /\ stdout = ExpectedOutput)

C7_Witness == packages = PACKAGES /\ pc = "done" /\ Len(stdout) = 3

\* C8: with duration 0, get_mean_speed(), get_spent_calories() of Running
\* and SportsWalking and show_training_info() raise ZeroDivisionError, no
\* InfoMessage is produced and main() prints nothing, while get_distance()
\* returns action x LEN_STEP / 1000.
C8_ZeroDuration ==
    (pc = "ready" /\ training.duration = 0) =>
        /\ last.op = "get_mean_speed"
           => ~last.ok /\ last.err = "ZeroDivisionError"
        /\ (last.op = "get_spent_calories"
                /\ training.cls \in {"Running", "SportsWalking"})
           => ~last.ok /\ last.err = "ZeroDivisionError"
        /\ last.op \in {"show_training_info", "main"}
           => ~last.ok /\ last.err = "ZeroDivisionError"
        /\ last.op = "get_distance"
           => NumEq(last, Div(Mul(Nat2Num(training.action),
                                  StepOf(training.cls)),
                              Nat2Num(1000)))
        /\ info = NoInfo
        /\ msgs = <<>>
        /\ stdout = <<>>

C8_Witness ==
    /\ pc = "ready"
    /\ training.duration = 0
    /\ training.cls = "SportsWalking"
    /\ last.op = "show_training_info"
    /\ ~last.ok

\* C9: for a known code read_package returns a calculator exactly when the
\* reading list has the arity of the class (RUN 3, WLK 4, SWM 5); a shorter
\* or longer list raises TypeError from the constructor call and no
\* calculator is returned.
C9_ArityDecides ==
    (pc # "start" /\ workout_type \in KnownCodes) =>
        /\ pc = "ready" <=> Len(data) = Arity(workout_type)
        /\ pc = "ready" => training # NoTraining /\ err = "none"
        /\ pc = "failed" => training = NoTraining /\ err = "TypeError"

C9_Witness ==
    /\ pc = "failed"
    /\ workout_type = "RUN"
    /\ Len(data) = 4
    /\ err = "TypeError"

\* C10: in every report the distance is action x step / 1000 with step
\* 0.65 for Running and SportsWalking and 1.38 for Swimming; the speed of
\* a Running or SportsWalking report is its distance over its duration,
\* that of a Swimming report is length_pool x count_pool / 1000 / duration.
C10_ReportDistanceSpeed ==
    (pc = "ready" /\ info # NoInfo) =>
        /\ info.duration = training.duration
        /\ NumEq(info.distance,
                 Div(Mul(Nat2Num(training.action),
                         IF info.training_type = "Swimming"
                         THEN Num(138, 100) ELSE Num(65, 100)),
                     Nat2Num(1000)))
        /\ info.training_type \in {"Running", "SportsWalking"}
           => NumEq(info.speed, Div(info.distance, Nat2Num(info.duration)))
        /\ info.training_type = "Swimming"
           => NumEq(info.speed, PoolSpeed(training))

\* a Swimming report whose speed is not its distance over its duration
C10_Witness ==
    /\ pc = "ready"
    /\ info # NoInfo
    /\ info.training_type = "Swimming"
    /\ ~NumEq(info.speed, Div(info.distance, Nat2Num(info.duration)))

====
